---- MODULE Spec2Model ----
(***************************************************************************)
(* Model of optimization_helpers.h: the Firebase helper routines of the     *)
(* smart-ecolock firmware (gate check, Firestore fetch, RTDB write/update, *)
(* person-record extraction, collection synchronisation).                  *)
(*                                                                         *)
(* The vendor SDK is an external collaborator: the outcome of each SDK     *)
(* data call (success or failure, and the payload returned) and the value  *)
(* of Firebase.ready() at each query are chosen nondeterministically.      *)
(* Every invocation records what it did, in order, in `trace`.             *)
(***************************************************************************)
EXTENDS Integers, Sequences, FiniteSets, TLC

(* ---------------------------------------------------------------- bounds *)
MaxDocs == 3

(* ------------------------------------------------------- structured data *)
\* The four person fields read by extractPersonData, as Firestore paths
\* "fields/<name>/stringValue" (schedules: "fields/schedules/arrayValue").
PersonFields == {"fullName", "email", "role", "schedules"}
DocFields == PersonFields \cup {"rfidUid"}

\* Values a Firestore document can carry in each field.
FieldVals(f) ==
  CASE f = "rfidUid"   -> {"", "A", "B"}
    [] f = "fullName"  -> {"Ann"}
    [] f = "email"     -> {"a@x"}
    [] f = "role"      -> {"teacher"}
    [] f = "schedules" -> {"[s1]"}

AllVals == UNION {FieldVals(f) : f \in DocFields}

\* A document is a partial function from field name to string: a field that
\* doc.get() does not find is outside its domain.
Docs ==
  UNION { {d \in [S -> AllVals] : \A f \in S : d[f] \in FieldVals(f)} :
          S \in SUBSET DocFields }

EmptyMap == [k \in {} |-> ""]

\* data[key] = value on a std::map<String, String>
Put(m, k, v) == [x \in DOMAIN m \cup {k} |-> IF x = k THEN v ELSE m[x]]

\* A structured value as far as these helpers look into it: the type of its
\* "documents" member and, when that is an array, its elements.
EmptyJson == [docsType |-> "missing", documents |-> <<>>]

DocsArray(json) == IF json.docsType = "array" THEN json.documents ELSE <<>>

(* ------------------------------------------------------------- variables *)
VARIABLES
  sdMode,       \* global flag: SD-card fallback mode
  isConnected,  \* global flag: network connected
  sdkReady,     \* what Firebase.ready() answers when queried now
  pc,           \* position: "idle", "sync_fetch", "sync_loop", "done"
  op,           \* operation in progress or just finished
  role,         \* fetchAndProcessCollection: default role, NoRole = nullptr
  logFailure,   \* writeToRTDB: logFailure argument
  json,         \* jsonResult of fetchFirestoreCollection / local json of the synchronizer
  entryJson,    \* value of json when the invocation started
  resultMap,    \* caller's output mapping uid -> person record
  entryMap,     \* value of resultMap when the invocation started
  i,            \* loop index of fetchAndProcessCollection
  docArg,       \* extractPersonData: the document argument
  data,         \* extractPersonData: the record argument (in/out)
  entryData,    \* value of data when the invocation started
  fbdoPayload,  \* firestoreFbdo.payload(): what the last successful getDocument returned
  ret,          \* return value: "true", "false", "void", "none" while running
  gateObs,      \* flags seen by each gate check of this invocation, in order
  trace         \* watchdog feeds, SDK data calls and console lines, in order

vars == <<sdMode, isConnected, sdkReady, pc, op, role, logFailure, json,
          entryJson, resultMap, entryMap, i, docArg, data, entryData, fbdoPayload,
          ret, gateObs, trace>>

NoRole == "<nullptr>"

(* ------------------------------------------------------ helper functions *)
\* (variant: the guard without the sdMode test)
GateFails_noSdMode(sd, conn, rdy) == ~conn \/ ~rdy

\* The guard `sdMode || !isConnected || !Firebase.ready()` of every operation
GateFails(sd, conn, rdy) == sd \/ ~conn \/ ~rdy

GateNow == GateFails(sdMode, isConnected, sdkReady)
ObsNow == [sd |-> sdMode, conn |-> isConnected, rdy |-> sdkReady]

\* (variant: the payload is stored before the result of getDocument is tested)
fetchFirestoreCollection_storesFirst(jsonResult, tr, ok, payload) ==
  IF GateNow
    THEN [ret |-> FALSE, json |-> jsonResult, trace |-> tr]
    ELSE IF ok
      THEN [ret |-> TRUE, json |-> payload,
            trace |-> tr \o <<"feed", "getDocument_ok">>]
      ELSE [ret |-> FALSE, json |-> payload,
            trace |-> tr \o <<"feed", "getDocument_err">>]

\* fetchFirestoreCollection(collection, jsonResult): ok/payload are the
\* outcome of Firebase.Firestore.getDocument and firestoreFbdo.payload().
fetchFirestoreCollection(jsonResult, tr, ok, payload) ==
  IF GateNow
    THEN [ret |-> FALSE, json |-> jsonResult, trace |-> tr]
    ELSE IF ok
      THEN [ret |-> TRUE, json |-> payload,
            trace |-> tr \o <<"feed", "getDocument_ok">>]
      ELSE [ret |-> FALSE, json |-> jsonResult,
            trace |-> tr \o <<"feed", "getDocument_err">>]

\* (variant: logFailure is ignored)
writeToRTDB_alwaysLogs(logF, ok) ==
  IF GateNow
    THEN [ret |-> FALSE, trace |-> <<>>]
    ELSE IF ok
      THEN [ret |-> TRUE, trace |-> <<"feed", "setJSON_ok">>]
      ELSE [ret |-> FALSE,
            trace |-> <<"feed", "setJSON_err", "println_write_failed">>]

\* writeToRTDB(path, json, logFailure): ok is the outcome of RTDB.setJSON
writeToRTDB(logF, ok) ==
  IF GateNow
    THEN [ret |-> FALSE, trace |-> <<>>]
    ELSE IF ok
      THEN [ret |-> TRUE, trace |-> <<"feed", "setJSON_ok">>]
      ELSE IF logF
        THEN [ret |-> FALSE,
              trace |-> <<"feed", "setJSON_err", "println_write_failed">>]
        ELSE [ret |-> FALSE, trace |-> <<"feed", "setJSON_err">>]

\* updateRTDBNode(path, json): ok is the outcome of RTDB.updateNode
updateRTDBNode(ok) ==
  IF GateNow
    THEN [ret |-> FALSE, trace |-> <<>>]
    ELSE IF ok
      THEN [ret |-> TRUE, trace |-> <<"feed", "updateNode_ok">>]
      ELSE [ret |-> FALSE,
            trace |-> <<"feed", "updateNode_err", "println_update_failed">>]

\* (variant: an absent email is stored as the empty string)
extractPersonData_defaultEmail(doc, d0) ==
  LET d1 == IF "fullName" \in DOMAIN doc
              THEN Put(d0, "fullName", doc["fullName"])
              ELSE Put(d0, "fullName", "Unknown")
      d2 == IF "email" \in DOMAIN doc
              THEN Put(d1, "email", doc["email"])
              ELSE Put(d1, "email", "")
      d3 == IF "role" \in DOMAIN doc THEN Put(d2, "role", doc["role"]) ELSE d2
  IN  IF "schedules" \in DOMAIN doc
        THEN Put(d3, "schedules", doc["schedules"])
        ELSE Put(d3, "schedules", "[]")

\* extractPersonData(doc, data)
extractPersonData(doc, d0) ==
  LET d1 == IF "fullName" \in DOMAIN doc
              THEN Put(d0, "fullName", doc["fullName"])
              ELSE Put(d0, "fullName", "Unknown")
      d2 == IF "email" \in DOMAIN doc THEN Put(d1, "email", doc["email"]) ELSE d1
      d3 == IF "role" \in DOMAIN doc THEN Put(d2, "role", doc["role"]) ELSE d2
  IN  IF "schedules" \in DOMAIN doc
        THEN Put(d3, "schedules", doc["schedules"])
        ELSE Put(d3, "schedules", "[]")

\* fetchAndProcessCollection, entry: gate check, then the "Fetching ..." line
fetchAndProcessCollection_entry(map, tr) ==
  IF GateNow
    THEN [next |-> "done", map |-> map, trace |-> tr]
    ELSE [next |-> "sync_fetch", map |-> map,
          trace |-> Append(tr, "println_fetching")]

\* (variant: the mapping is reset when the fetch fails)
fetchAndProcessCollection_fetch_clears(map, tr, ok, payload) ==
  LET r == fetchFirestoreCollection(EmptyJson, tr, ok, payload)
  IN  IF ~r.ret
        THEN [next |-> "done", map |-> EmptyMap, json |-> r.json,
              trace |-> Append(r.trace, "println_fetch_failed")]
        ELSE [next |-> "sync_loop", map |-> map, json |-> r.json,
              trace |-> r.trace]

\* fetchAndProcessCollection, the fetch into the local json and its check
fetchAndProcessCollection_fetch(map, tr, ok, payload) ==
  LET r == fetchFirestoreCollection(EmptyJson, tr, ok, payload)
  IN  IF ~r.ret
        THEN [next |-> "done", map |-> map, json |-> r.json,
              trace |-> Append(r.trace, "println_fetch_failed")]
        ELSE [next |-> "sync_loop", map |-> map, json |-> r.json,
              trace |-> r.trace]

\* (variant: the uid.length() > 0 test is missing)
fetchAndProcessCollection_element_noLength(map, doc, rl, tr) ==
  IF "rfidUid" \in DOMAIN doc
    THEN LET personData == extractPersonData(doc, EmptyMap)
             withRole == IF rl # NoRole /\ "role" \notin DOMAIN personData
                           THEN Put(personData, "role", rl)
                           ELSE personData
         IN  [map |-> Put(map, doc["rfidUid"], withRole),
              trace |-> Append(tr, "feed")]
    ELSE [map |-> map, trace |-> Append(tr, "feed")]

\* (variant: a supplied default role is stamped on every record)
fetchAndProcessCollection_element_stamps(map, doc, rl, tr) ==
  IF "rfidUid" \in DOMAIN doc /\ doc["rfidUid"] # ""
    THEN LET personData == extractPersonData(doc, EmptyMap)
             withRole == IF rl # NoRole
                           THEN Put(personData, "role", rl)
                           ELSE personData
         IN  [map |-> Put(map, doc["rfidUid"], withRole),
              trace |-> Append(tr, "feed")]
    ELSE [map |-> map, trace |-> Append(tr, "feed")]

\* (variant: the record is extracted into the entry the mapping already holds)
fetchAndProcessCollection_element_merges(map, doc, rl, tr) ==
  IF "rfidUid" \in DOMAIN doc /\ doc["rfidUid"] # ""
    THEN LET personData ==
               extractPersonData(doc, IF doc["rfidUid"] \in DOMAIN map
                                        THEN map[doc["rfidUid"]] ELSE EmptyMap)
             withRole == IF rl # NoRole /\ "role" \notin DOMAIN personData
                           THEN Put(personData, "role", rl)
                           ELSE personData
         IN  [map |-> Put(map, doc["rfidUid"], withRole),
              trace |-> Append(tr, "feed")]
    ELSE [map |-> map, trace |-> Append(tr, "feed")]

\* (variant: the watchdog is fed only for the documents that are inserted)
fetchAndProcessCollection_element_feedsInside(map, doc, rl, tr) ==
  IF "rfidUid" \in DOMAIN doc /\ doc["rfidUid"] # ""
    THEN LET personData == extractPersonData(doc, EmptyMap)
             withRole == IF rl # NoRole /\ "role" \notin DOMAIN personData
                           THEN Put(personData, "role", rl)
                           ELSE personData
         IN  [map |-> Put(map, doc["rfidUid"], withRole),
              trace |-> Append(tr, "feed")]
    ELSE [map |-> map, trace |-> tr]

\* fetchAndProcessCollection, one iteration of the loop over the documents
fetchAndProcessCollection_element(map, doc, rl, tr) ==
  IF "rfidUid" \in DOMAIN doc /\ doc["rfidUid"] # ""
    THEN LET personData == extractPersonData(doc, EmptyMap)
             withRole == IF rl # NoRole /\ "role" \notin DOMAIN personData
                           THEN Put(personData, "role", rl)
                           ELSE personData
         IN  [map |-> Put(map, doc["rfidUid"], withRole),
              trace |-> Append(tr, "feed")]
    ELSE [map |-> map, trace |-> Append(tr, "feed")]

(* ---------------------------------------------------------------- inputs *)
\* The document with exactly the fields S, rfidUid (when in S) being uid
DocOf(S, uid) ==
  [f \in S |-> IF f = "rfidUid" THEN uid ELSE CHOOSE v \in FieldVals(f) : TRUE]

\* Documents a Firestore response is built from: complete and partial
\* records for two tags, and records with an empty or missing rfidUid.
DocPool ==
  { DocOf(DocFields, "A"),
    DocOf({"rfidUid"}, "A"),
    DocOf({"rfidUid", "role"}, "A"),
    DocOf({"rfidUid", "fullName", "email"}, "A"),
    DocOf(DocFields, "B"),
    DocOf({"rfidUid", "schedules"}, "B"),
    DocOf(DocFields, ""),
    DocOf(PersonFields, ""),
    DocOf({}, "") }

SeqsUpTo(S, n) == UNION {[1..k -> S] : k \in 0..n}

\* Payloads getDocument can deliver: a documents array, no documents member,
\* or a documents member that is not an array.
Responses ==
  {[docsType |-> "array", documents |-> s] : s \in SeqsUpTo(DocPool, MaxDocs)}
    \cup {EmptyJson, [docsType |-> "object", documents |-> <<>>]}

OldRecord ==
  [fullName |-> "Old", email |-> "old@x", role |-> "admin", schedules |-> "[old]"]

\* Content of the caller's mapping when fetchAndProcessCollection is called
PriorMaps == {EmptyMap, Put(Put(EmptyMap, "A", OldRecord), "B", OldRecord)}

\* Content of the caller's jsonResult when fetchFirestoreCollection is called
PriorJsons ==
  {EmptyJson, [docsType |-> "array", documents |-> <<Put(EmptyMap, "rfidUid", "B")>>]}

\* Content of the caller's record when extractPersonData is called
PriorData == {EmptyMap, OldRecord}

Roles == {NoRole, "student"}

(* ----------------------------------------------------------------- model *)
Init ==
  /\ sdMode = FALSE
  /\ isConnected = FALSE
  /\ sdkReady = FALSE
  /\ pc = "idle"
  /\ op = "none"
  /\ role = NoRole
  /\ logFailure = TRUE
  /\ json = EmptyJson
  /\ entryJson = EmptyJson
  /\ resultMap = EmptyMap
  /\ entryMap = EmptyMap
  /\ i = 0
  /\ docArg = EmptyMap
  /\ data = EmptyMap
  /\ entryData = EmptyMap
  /\ fbdoPayload = EmptyJson
  /\ ret = "none"
  /\ gateObs = <<>>
  /\ trace = <<>>

Bool(b) == IF b THEN "true" ELSE "false"

\* getDocument succeeded during the invocation that produced trace tr
GotDocument(tr) == \E k \in DOMAIN tr : tr[k] = "getDocument_ok"

\* Code outside these helpers sets the two global flags between invocations.
SetFlags ==
  /\ pc = "idle"
  /\ \E sd \in BOOLEAN, conn \in BOOLEAN :
       /\ <<sd, conn>> # <<sdMode, isConnected>>
       /\ sdMode' = sd
       /\ isConnected' = conn
  /\ UNCHANGED <<sdkReady, pc, op, role, logFailure, json, entryJson, resultMap,
                 entryMap, i, docArg, data, entryData, fbdoPayload, ret, gateObs, trace>>

\* Firebase.ready() is queried live: its answer can change between queries.
ReadyChange ==
  /\ pc # "done"
  /\ sdkReady' = ~sdkReady
  /\ UNCHANGED <<sdMode, isConnected, pc, op, role, logFailure, json, entryJson,
                 resultMap, entryMap, i, docArg, data, entryData, fbdoPayload, ret, gateObs, trace>>

CallFetchFirestoreCollection ==
  /\ pc = "idle"
  /\ \E j0 \in PriorJsons, ok \in BOOLEAN, payload \in Responses :
       LET r == fetchFirestoreCollection(j0, <<>>, ok, payload)
       IN  /\ entryJson' = j0
           /\ json' = r.json
           /\ trace' = r.trace
           /\ ret' = Bool(r.ret)
           /\ fbdoPayload' = IF GotDocument(r.trace) THEN payload ELSE fbdoPayload
  /\ gateObs' = <<ObsNow>>
  /\ op' = "fetch"
  /\ pc' = "done"
  /\ UNCHANGED <<sdMode, isConnected, sdkReady, role, logFailure, resultMap,
                 entryMap, i, docArg, data, entryData>>

CallWriteToRTDB ==
  /\ pc = "idle"
  /\ \E logF \in BOOLEAN, ok \in BOOLEAN :
       LET r == writeToRTDB(logF, ok)
       IN  /\ logFailure' = logF
           /\ trace' = r.trace
           /\ ret' = Bool(r.ret)
  /\ gateObs' = <<ObsNow>>
  /\ op' = "write"
  /\ pc' = "done"
  /\ UNCHANGED <<sdMode, isConnected, sdkReady, role, json, entryJson, resultMap,
                 entryMap, i, docArg, data, entryData, fbdoPayload>>

CallUpdateRTDBNode ==
  /\ pc = "idle"
  /\ \E ok \in BOOLEAN :
       LET r == updateRTDBNode(ok)
       IN  /\ trace' = r.trace
           /\ ret' = Bool(r.ret)
  /\ gateObs' = <<ObsNow>>
  /\ op' = "update"
  /\ pc' = "done"
  /\ UNCHANGED <<sdMode, isConnected, sdkReady, role, logFailure, json, entryJson,
                 resultMap, entryMap, i, docArg, data, entryData, fbdoPayload>>

CallExtractPersonData ==
  /\ pc = "idle"
  /\ \E doc \in Docs, d0 \in PriorData :
       /\ docArg' = doc
       /\ entryData' = d0
       /\ data' = extractPersonData(doc, d0)
  /\ op' = "extract"
  /\ pc' = "done"
  /\ ret' = "void"
  /\ UNCHANGED <<sdMode, isConnected, sdkReady, role, logFailure, json, entryJson,
                 resultMap, entryMap, i, fbdoPayload, gateObs, trace>>

CallFetchAndProcessCollection ==
  /\ pc = "idle"
  /\ \E m0 \in PriorMaps, rl \in Roles :
       LET r == fetchAndProcessCollection_entry(m0, <<>>)
       IN  /\ entryMap' = m0
           /\ role' = rl
           /\ resultMap' = r.map
           /\ trace' = r.trace
           /\ pc' = r.next
           /\ ret' = IF r.next = "done" THEN "void" ELSE "none"
  /\ gateObs' = <<ObsNow>>
  /\ op' = "sync"
  /\ UNCHANGED <<sdMode, isConnected, sdkReady, logFailure, json, entryJson, i,
                 docArg, data, entryData, fbdoPayload>>

SyncFetch ==
  /\ pc = "sync_fetch"
  /\ \E ok \in BOOLEAN, payload \in Responses :
       LET r == fetchAndProcessCollection_fetch(resultMap, trace, ok, payload)
       IN  /\ resultMap' = r.map
           /\ json' = r.json
           /\ trace' = r.trace
           /\ pc' = r.next
           /\ ret' = IF r.next = "done" THEN "void" ELSE "none"
           /\ fbdoPayload' = IF GotDocument(r.trace) THEN payload ELSE fbdoPayload
  /\ gateObs' = Append(gateObs, ObsNow)
  /\ i' = 0
  /\ UNCHANGED <<sdMode, isConnected, sdkReady, op, role, logFailure, entryJson,
                 entryMap, docArg, data, entryData>>

SyncElement ==
  /\ pc = "sync_loop"
  /\ i < Len(DocsArray(json))
  /\ LET r == fetchAndProcessCollection_element(resultMap, DocsArray(json)[i + 1],
                                                role, trace)
     IN  /\ resultMap' = r.map
         /\ trace' = r.trace
  /\ i' = i + 1
  /\ UNCHANGED <<sdMode, isConnected, sdkReady, pc, op, role, logFailure, json,
                 entryJson, entryMap, docArg, data, entryData, fbdoPayload, ret, gateObs>>

SyncSummary ==
  /\ pc = "sync_loop"
  /\ i >= Len(DocsArray(json))
  /\ trace' = Append(trace, "println_fetched")
  /\ pc' = "done"
  /\ ret' = "void"
  /\ UNCHANGED <<sdMode, isConnected, sdkReady, op, role, logFailure, json,
                 entryJson, resultMap, entryMap, i, docArg, data, entryData, fbdoPayload,
                 gateObs>>

\* The caller takes the result; nothing is retained between invocations.
Return ==
  /\ pc = "done"
  /\ pc' = "idle"
  /\ op' = "none"
  /\ role' = NoRole
  /\ logFailure' = TRUE
  /\ json' = EmptyJson
  /\ entryJson' = EmptyJson
  /\ resultMap' = EmptyMap
  /\ entryMap' = EmptyMap
  /\ i' = 0
  /\ docArg' = EmptyMap
  /\ data' = EmptyMap
  /\ entryData' = EmptyMap
  /\ fbdoPayload' = EmptyJson
  /\ ret' = "none"
  /\ gateObs' = <<>>
  /\ trace' = <<>>
  /\ UNCHANGED <<sdMode, isConnected, sdkReady>>

Next ==
  \/ SetFlags
  \/ ReadyChange
  \/ CallFetchFirestoreCollection
  \/ CallWriteToRTDB
  \/ CallUpdateRTDBNode
  \/ CallExtractPersonData
  \/ CallFetchAndProcessCollection
  \/ SyncFetch
  \/ SyncElement
  \/ SyncSummary
  \/ Return

Spec == Init /\ [][Next]_vars

(* ------------------------------------------------------------ vocabulary *)
SdkOk == {"getDocument_ok", "setJSON_ok", "updateNode_ok"}
SdkErr == {"getDocument_err", "setJSON_err", "updateNode_err"}
SdkCalls == SdkOk \cup SdkErr
FailureLines ==
  {"println_fetch_failed", "println_write_failed", "println_update_failed"}
ConsoleLines == FailureLines \cup {"println_fetching", "println_fetched"}

Count(tr, S) == Cardinality({k \in DOMAIN tr : tr[k] \in S})
Occurs(tr, e) == \E k \in DOMAIN tr : tr[k] = e

\* A gate check that saw these flags fails
ObsFails(o) == o.sd \/ ~o.conn \/ ~o.rdy
SomeGateFailed == \E k \in DOMAIN gateObs : ObsFails(gateObs[k])

Finished(o) == pc = "done" /\ op = o
\* fetchAndProcessCollection ran to its summary line
SyncSucceeded == Finished("sync") /\ Occurs(trace, "println_fetched")

TypeOK ==
  /\ sdMode \in BOOLEAN /\ isConnected \in BOOLEAN /\ sdkReady \in BOOLEAN
  /\ pc \in {"idle", "sync_fetch", "sync_loop", "done"}
  /\ op \in {"none", "fetch", "write", "update", "extract", "sync"}
  /\ role \in Roles
  /\ logFailure \in BOOLEAN
  /\ i \in 0..MaxDocs
  /\ ret \in {"none", "true", "false", "void"}
  /\ \A k \in DOMAIN trace : trace[k] \in SdkCalls \cup ConsoleLines \cup {"feed"}

(* ------------------------------------------------------------------- C1 *)
\* C1: in every invocation of a gated operation in which a gate check saw a
\* failing flag (sdMode true, isConnected false or Firebase.ready() false),
\* the operation has returned its failure value (false; a plain return for
\* fetchAndProcessCollection) and no SDK data call was made.
C1_GateFailureNoSdkCall ==
  SomeGateFailed =>
    /\ pc = "done"
    /\ Count(trace, SdkCalls) = 0
    /\ ret = (IF op = "sync" THEN "void" ELSE "false")

C1_Witness ==
  /\ Finished("write")
  /\ gateObs = <<[sd |-> TRUE, conn |-> TRUE, rdy |-> TRUE]>>
  /\ ret = "false"

(* ------------------------------------------------------------------- C2 *)
\* rfidUid values that are present and non-empty among the documents
IncludedUids(docs) ==
  {docs[k]["rfidUid"] : k \in {n \in DOMAIN docs : "rfidUid" \in DOMAIN docs[n]}}
    \ {""}

\* C2: after a fetchAndProcessCollection that passed the gate and fetched
\* successfully, started with an empty mapping, the keys of the mapping are
\* exactly the present, non-empty rfidUid values of the documents array.
C2_KeysAreNonEmptyUids ==
  (SyncSucceeded /\ entryMap = EmptyMap) =>
    DOMAIN resultMap = IncludedUids(DocsArray(json))

C2_Witness ==
  /\ SyncSucceeded
  /\ entryMap = EmptyMap
  /\ Len(DocsArray(json)) = 3
  /\ \E k \in 1..3 : "rfidUid" \in DOMAIN json.documents[k]
                       /\ json.documents[k]["rfidUid"] = ""
  /\ \E k \in 1..3 : "rfidUid" \notin DOMAIN json.documents[k]
  /\ DOMAIN resultMap = {"A"}

(* ------------------------------------------------------------------- C3 *)
\* C3: fetchAndProcessCollection leaves the caller's mapping exactly as it
\* was on entry when it returns because the gate failed or because
\* fetchFirestoreCollection returned false.
C3_FailureLeavesMapUntouched ==
  (Finished("sync") /\ ~Occurs(trace, "getDocument_ok")) => resultMap = entryMap

C3_Witness ==
  /\ Finished("sync")
  /\ Occurs(trace, "getDocument_err")
  /\ entryMap # EmptyMap
  /\ resultMap = entryMap

(* ------------------------------------------------------------------- C4 *)
\* C4: each document fetchAndProcessCollection includes is stored with the
\* supplied default role when it has no role field and a default was given,
\* with its own role when it has one, and without a role key when it has
\* none and no default was given.
C4_DefaultRole ==
  [][ (pc = "sync_loop" /\ i' = i + 1) =>
        LET doc == DocsArray(json)[i + 1]
        IN  ("rfidUid" \in DOMAIN doc /\ doc["rfidUid"] # "") =>
              /\ doc["rfidUid"] \in DOMAIN resultMap'
              /\ LET rec == resultMap'[doc["rfidUid"]]
                 IN  IF "role" \in DOMAIN doc
                       THEN "role" \in DOMAIN rec /\ rec["role"] = doc["role"]
                       ELSE IF role # NoRole
                         THEN "role" \in DOMAIN rec /\ rec["role"] = role
                         ELSE "role" \notin DOMAIN rec ]_vars

C4_Witness ==
  /\ SyncSucceeded
  /\ role = "student"
  /\ {"A", "B"} \subseteq DOMAIN resultMap
  /\ resultMap["A"]["role"] = "student"
  /\ resultMap["B"]["role"] = "teacher"

(* ------------------------------------------------------------------- C5 *)
\* C5: extractPersonData applied to an empty record yields a record that
\* always has fullName (the document's, else "Unknown") and schedules (the
\* document's, else "[]"), has email exactly when the document has an email
\* field and role exactly when the document has a role field.
C5_PersonRecord ==
  (Finished("extract") /\ entryData = EmptyMap) =>
    /\ DOMAIN data = {"fullName", "schedules"} \cup (DOMAIN docArg \cap {"email", "role"})
    /\ data["fullName"] =
         (IF "fullName" \in DOMAIN docArg THEN docArg["fullName"] ELSE "Unknown")
    /\ data["schedules"] =
         (IF "schedules" \in DOMAIN docArg THEN docArg["schedules"] ELSE "[]")
    /\ \A f \in DOMAIN docArg \cap {"email", "role"} : data[f] = docArg[f]

C5_Witness ==
  /\ Finished("extract")
  /\ entryData = EmptyMap
  /\ DOMAIN docArg = {"rfidUid", "role"}
  /\ data = [fullName |-> "Unknown", role |-> "teacher", schedules |-> "[]"]

(* ------------------------------------------------------------------- C6 *)
\* C6: fetchFirestoreCollection returns true exactly when the gate passes
\* and getDocument succeeds; on true the caller's output holds the SDK
\* payload, on false it is unchanged from its value on entry.
C6_FetchResult ==
  Finished("fetch") =>
    /\ ret \in {"true", "false"}
    /\ ret = "true" <=> (~SomeGateFailed /\ Occurs(trace, "getDocument_ok"))
    /\ ret = "true" => json = fbdoPayload
    /\ ret = "false" => json = entryJson

C6_Witness ==
  /\ Finished("fetch")
  /\ ret = "false"
  /\ Occurs(trace, "getDocument_err")
  /\ entryJson # EmptyJson
  /\ json = entryJson

(* ------------------------------------------------------------------- C7 *)
\* C7: a failure line on the console is written only after an SDK data call
\* of the same invocation reported failure; an invocation whose gate check
\* failed and that made no SDK data call writes no failure line.
C7_GateFailuresSilent ==
  \A k \in DOMAIN trace :
    trace[k] \in FailureLines => \E j \in 1..(k - 1) : trace[j] \in SdkErr

(* ------------------------------------------------------------------- C8 *)
\* C8: with the gate passed, a failed setJSON makes writeToRTDB return false
\* with exactly one failure line if logFailure and none otherwise; a failed
\* updateNode makes updateRTDBNode return false with exactly one failure
\* line; on success both return true and write nothing; the SDK call is made
\* at most once per invocation.
C8_WriteUpdateLogging ==
  ((Finished("write") \/ Finished("update")) /\ ~SomeGateFailed) =>
    /\ Count(trace, SdkCalls) = 1
    /\ Count(trace, ConsoleLines) = Count(trace, FailureLines)
    /\ IF Count(trace, SdkOk) = 1
         THEN ret = "true" /\ Count(trace, ConsoleLines) = 0
         ELSE /\ ret = "false"
              /\ Count(trace, FailureLines) =
                   (IF op = "write" /\ ~logFailure THEN 0 ELSE 1)

C8_Witness ==
  /\ Finished("write")
  /\ ~logFailure
  /\ trace = <<"feed", "setJSON_err">>
  /\ ret = "false"

(* ------------------------------------------------------------------- C9 *)
\* The record one document alone maps to: the four fields with their
\* defaults, then the default role when one is supplied and role is absent
RecordOf(doc, rl) ==
  [f \in {"fullName", "schedules"} \cup (DOMAIN doc \cap {"email", "role"})
         \cup (IF rl # NoRole THEN {"role"} ELSE {}) |->
     IF f \in DOMAIN doc THEN doc[f]
     ELSE IF f = "fullName" THEN "Unknown"
     ELSE IF f = "schedules" THEN "[]"
     ELSE rl]

\* Indices of the documents carrying the non-empty identifier u
Carriers(docs, u) ==
  {k \in DOMAIN docs : "rfidUid" \in DOMAIN docs[k] /\ docs[k]["rfidUid"] = u}

Highest(S) == CHOOSE k \in S : \A n \in S : n <= k

\* C9: after a successful fetchAndProcessCollection every identifier carried
\* by some document maps to the record of the highest-index document that
\* carries it, taken alone (nothing of an earlier document or of the entry
\* the mapping held before survives); entries matching no document are
\* unchanged.
C9_LastWriteWins ==
  SyncSucceeded =>
    LET docs == DocsArray(json)
    IN  /\ DOMAIN resultMap = DOMAIN entryMap \cup IncludedUids(docs)
        /\ \A u \in DOMAIN resultMap :
             IF Carriers(docs, u) # {}
               THEN resultMap[u] = RecordOf(docs[Highest(Carriers(docs, u))], role)
               ELSE resultMap[u] = entryMap[u]

C9_Witness ==
  /\ SyncSucceeded
  /\ role = NoRole
  /\ entryMap # EmptyMap
  /\ Cardinality(Carriers(DocsArray(json), "A")) = 2
  /\ DOMAIN json.documents[1] = DocFields
  /\ DOMAIN resultMap["A"] = {"fullName", "schedules"}
  /\ resultMap["B"] = OldRecord

(* ------------------------------------------------------------------ C10 *)
\* C10: every SDK data call is preceded in its invocation by a watchdog
\* feed with no other SDK data call in between; no feed happens when a gate
\* check fails; fetchAndProcessCollection has fed the watchdog once for the
\* fetch and once for each element handled so far, inserted or skipped, so
\* a successful run over n documents performs exactly n + 1 feeds.
C10_WatchdogOrdering ==
  /\ \A k \in DOMAIN trace :
       trace[k] \in SdkCalls =>
         \E j \in 1..(k - 1) :
           /\ trace[j] = "feed"
           /\ \A n \in (j + 1)..(k - 1) : trace[n] \notin SdkCalls
  /\ SomeGateFailed => Count(trace, {"feed"}) = 0
  /\ (op = "sync" /\ pc = "sync_loop") =>
       /\ Count(trace, {"feed"}) = i + 1
       /\ trace = <<"println_fetching", "feed", "getDocument_ok">>
                    \o [k \in 1..i |-> "feed"]
  /\ SyncSucceeded =>
       trace = <<"println_fetching", "feed", "getDocument_ok">>
                 \o [k \in 1..Len(DocsArray(json)) |-> "feed"]
                 \o <<"println_fetched">>

C10_Witness ==
  /\ SyncSucceeded
  /\ Len(DocsArray(json)) = 3
  /\ Cardinality(DOMAIN resultMap) = 1
  /\ entryMap = EmptyMap
  /\ Count(trace, {"feed"}) = 4

====
